---- MODULE Spec2Model ----
(***************************************************************************)
(* DynamicPricingCollector (dynamic_pricing_collector.py) and the input    *)
(* processing and strategy generation of DynamicPricingModel              *)
(* (dynamic_pricing_model.py).                                             *)
(*                                                                         *)
(* One collection cycle is a single thread of control.  Its atomic steps   *)
(* are the stretches of code between two blocking points: requests.get     *)
(* (the external call) and time.sleep (the backoff wait).                  *)
(***************************************************************************)
EXTENDS Integers, Sequences, FiniteSets, TLC

VARIABLES self, cycle, pc, fetch, data, processed, prev, oracle, strategy

vars == <<self, cycle, pc, fetch, data, processed, prev, oracle, strategy>>

\* Number of collect_and_process invocations explored on one collector.
MaxCycles == 2

Sources == {"market", "customer", "cost"}

\* ------------------------------------------------------------------------
\* Python values: None, a dict (a function from string keys), a raised
\* ValueError, and "unset" for a name that is not bound yet.
\* ------------------------------------------------------------------------
EmptyDict == [k \in {} |-> 0]

Unset == [tag |-> "unset", dict |-> EmptyDict]

PyNone == [tag |-> "None", dict |-> EmptyDict]

ValueError == [tag |-> "ValueError", dict |-> EmptyDict]

PyDict(d) == [tag |-> "dict", dict |-> d]

Restrict(f, D) == [k \in D |-> f[k]]

\* ------------------------------------------------------------------------
\* The three external APIs: what one requests.get can come back with.
\* ------------------------------------------------------------------------
Trends == {"up", "stable"}

CostSeries == {<<10, 20, 30>>, <<5>>}

StatusCodes == {200, 500}

\* datetime.now().isoformat(): the clock reading is not behaviour-bearing.
Timestamp == "isoformat"

\* The fields each API documents in its JSON body.
ExpectedFields(s) ==
  CASE s = "market"   -> {"trend", "volume"}
    [] s = "customer" -> {"trend", "engagement_score"}
    [] s = "cost"     -> {"trend", "costs"}

FullBodies(s) ==
  CASE s = "market"   -> {[trend |-> t, volume |-> 1000] : t \in Trends}
    [] s = "customer" -> {[trend |-> t, engagement_score |-> 7] : t \in {"up"}}
    [] s = "cost"     -> {[trend |-> t, costs |-> c] : t \in {"stable"}, c \in CostSeries}

\* JSON objects carrying any subset of the documented fields.
JsonObjects(s) ==
  {Restrict(b, D) : b \in FullBodies(s), D \in SUBSET ExpectedFields(s)}

\* requests.get raised (timeout, connection error).
TransportError ==
  [raised |-> TRUE, status_code |-> 0, json |-> FALSE, body |-> EmptyDict]

Responses(s) ==
  {TransportError}
    \cup {[raised |-> FALSE, status_code |-> c, json |-> FALSE, body |-> EmptyDict] :
            c \in StatusCodes}
    \cup {[raised |-> FALSE, status_code |-> 200, json |-> TRUE, body |-> b] :
            b \in JsonObjects(s)}

\* What a response is, seen from the outside (recorded in fetch[s].hist).
Kind(s, r) ==
  IF r.raised THEN "Transport"
  ELSE IF r.status_code # 200 THEN "BadStatus"
  ELSE IF ~r.json \/ ~(ExpectedFields(s) \subseteq DOMAIN r.body) THEN "Malformed"
  ELSE "WellFormed"

\* ------------------------------------------------------------------------
\* DynamicPricingCollector
\* ------------------------------------------------------------------------
retries == 3

backoff_factor == 1

\* __init__
Config ==
  [url_market     |-> "https://api.markets.com/v1/prices",
   url_customer   |-> "https://api.customerinsight.com/v2/behavior",
   url_cost       |-> "https://api.costanalytics.com/v3/costs",
   retries        |-> retries,
   backoff_factor |-> backoff_factor]

RECURSIVE Sum(_)
Sum(q) == IF q = <<>> THEN 0 ELSE Head(q) + Sum(Tail(q))

\* np.mean of a non-empty series (the series used have an integral mean).
Mean(q) == Sum(q) \div Len(q)

\* The keys of the JSON body that the return expression of fetcher s reads.
KeysRead(s) ==
  CASE s = "market"   -> {"trend", "volume"}
    [] s = "customer" -> {"trend", "engagement_score"}
    [] s = "cost"     -> {"trend", "costs"}

\* The dict a fetcher returns from a JSON body that has the keys it reads.
SourceRecord(s, d) ==
  CASE s = "market" ->
         [market_trend |-> d["trend"], volume |-> d["volume"],
          timestamp |-> Timestamp]
    [] s = "customer" ->
         [behavior_trend |-> d["trend"], engagement |-> d["engagement_score"],
          timestamp |-> Timestamp]
    [] s = "cost" ->
         [cost_trend |-> d["trend"], average_cost |-> Mean(d["costs"]),
          timestamp |-> Timestamp]

ParseBody_defaulting(s, r) ==
  IF r.json
  THEN PyDict(SourceRecord(s, r.body @@ (CHOOSE b \in FullBodies(s) : TRUE)))
  ELSE [tag |-> "Exception", dict |-> EmptyDict]

\* data = response.json() and the return expression on a 200 response: the
\* dict returned, or the exception raised (invalid JSON, a missing key).
ParseBody(s, r) ==
  IF r.json /\ KeysRead(s) \subseteq DOMAIN r.body
  THEN PyDict(SourceRecord(s, r.body))
  ELSE [tag |-> "Exception", dict |-> EmptyDict]

TryFlow_inverted(s, r) ==
  IF r.raised THEN "except"
  ELSE IF r.status_code # 200
       THEN IF ParseBody(s, r).tag = "dict" THEN "return" ELSE "except"
       ELSE "status"

\* The body of the try statement on one response: "return" (a dict is
\* returned), "status" (the if falls through to the status log) or "except"
\* (an exception reached the handler).
TryFlow(s, r) ==
  IF r.raised THEN "except"
  ELSE IF r.status_code = 200
       THEN IF ParseBody(s, r).tag = "dict" THEN "return" ELSE "except"
       ELSE "status"

\* wait_time = self.backoff_factor * (2 ** attempt)
WaitTime(attempt) == self.backoff_factor * (2 ^ attempt)

SleepsAfter_always(attempt) == attempt < self.retries

\* The guard of the backoff inside the exception handler.
SleepsAfter(attempt) == attempt < self.retries - 1

\* Python truthiness of a fetcher's return value.
Truthy(v) == v.tag = "dict" /\ DOMAIN v.dict # {}

\* Locals of one fetcher call.  st: "notstarted", "pending" (inside
\* requests.get), "sleeping" (inside time.sleep), "hung" (inside a
\* requests.get that never completes), "returned".  calls counts the
\* requests.get calls, delays[j] is the time slept between call j and call
\* j+1, hist[j] is the kind of the response to call j, lastlog is the last
\* logger.error message.
FetchInit ==
  [st |-> "notstarted", attempt |-> 0, wait_time |-> 0, calls |-> 0,
   delays |-> <<>>, hist |-> <<>>, lastlog |-> "", ret |-> Unset]

\* requests.get is entered for attempt a, d time units after the previous
\* attempt ended.
Issue(fr, a, d) ==
  [fr EXCEPT !.st = "pending", !.attempt = a, !.wait_time = 0,
             !.calls = @ + 1,
             !.delays = IF a = 0 THEN @ ELSE Append(@, d)]

\* return v
Return(fr, v) == [fr EXCEPT !.st = "returned", !.wait_time = 0, !.ret = v]

Loop_sleepforever(fr, a, d) ==
  IF a < self.retries THEN Issue(fr, a, d)
  ELSE [fr EXCEPT !.st = "sleeping", !.wait_time = WaitTime(a)]

Loop_offbyone(fr, a, d) ==
  IF a <= self.retries THEN Issue(fr, a, d) ELSE Return(fr, PyNone)

\* for attempt in range(self.retries): the loop head reached with the next
\* value a of the loop variable; past the range the function returns None.
Loop(fr, a, d) ==
  IF a < self.retries THEN Issue(fr, a, d) ELSE Return(fr, PyNone)

\* One response handled by fetcher s, up to its next blocking point.
Handle(s, fr, r) ==
  LET h == [fr EXCEPT !.hist = Append(@, Kind(s, r))]
      flow == TryFlow(s, r)
  IN  CASE flow = "return" -> Return(h, ParseBody(s, r))
        [] flow = "status" ->
             Loop([h EXCEPT !.lastlog = "API returned"], h.attempt + 1, 0)
        [] flow = "except" ->
             LET e == [h EXCEPT !.lastlog = "Request failed"]
             IN  IF SleepsAfter(e.attempt)
                 THEN [e EXCEPT !.st = "sleeping",
                                !.wait_time = WaitTime(e.attempt)]
                 ELSE Loop(e, e.attempt + 1, 0)

combined_data_nocheck(market, customer, cost) ==
  LET res == [s \in Sources |->
                CASE s = "market" -> market
                  [] s = "customer" -> customer
                  [] s = "cost" -> cost]
  IN  [s \in {t \in Sources : res[t].tag # "unset"} |-> res[s].dict]

\* combined_data as built by collect_and_process from the three results.
combined_data(market, customer, cost) ==
  LET res == [s \in Sources |->
                CASE s = "market" -> market
                  [] s = "customer" -> customer
                  [] s = "cost" -> cost]
  IN  [s \in {t \in Sources : Truthy(res[t])} |-> res[s].dict]

Resume_refetch(s, fr) ==
  IF fr.st # "returned"
  THEN /\ fetch' = [fetch EXCEPT ![s] = fr]
       /\ UNCHANGED <<pc, data>>
  ELSE IF fr.ret = PyNone /\ fr.calls <= self.retries
  THEN /\ fetch' = [fetch EXCEPT ![s] = Issue(fr, 0, 0)]
       /\ UNCHANGED <<pc, data>>
  ELSE CASE s = "market" ->
              /\ fetch' = [fetch EXCEPT ![s] = fr,
                                        !["customer"] = Loop(@, 0, 0)]
              /\ UNCHANGED <<pc, data>>
         [] s = "customer" ->
              /\ fetch' = [fetch EXCEPT ![s] = fr,
                                        !["cost"] = Loop(@, 0, 0)]
              /\ UNCHANGED <<pc, data>>
         [] s = "cost" ->
              /\ fetch' = [fetch EXCEPT ![s] = fr]
              /\ data' = PyDict(combined_data(fetch["market"].ret,
                                             fetch["customer"].ret, fr.ret))
              /\ pc' = "returned"

Resume_early(s, fr) ==
  IF fr.st # "returned"
  THEN /\ fetch' = [fetch EXCEPT ![s] = fr]
       /\ UNCHANGED <<pc, data>>
  ELSE CASE s = "market" ->
              /\ fetch' = [fetch EXCEPT ![s] = fr,
                                        !["customer"] = Loop(@, 0, 0)]
              /\ UNCHANGED <<pc, data>>
         [] s = "customer" ->
              /\ fetch' = [fetch EXCEPT ![s] = fr,
                                        !["cost"] = Loop(@, 0, 0)]
              /\ data' = PyDict(combined_data(fetch["market"].ret,
                                             fr.ret, PyNone))
              /\ UNCHANGED pc
         [] s = "cost" ->
              /\ fetch' = [fetch EXCEPT ![s] = fr]
              /\ data' = PyDict(combined_data(fetch["market"].ret,
                                             fetch["customer"].ret, fr.ret))
              /\ pc' = "returned"

\* collect_and_process resumes after fetcher s came to the state fr: a
\* returned fetcher is followed by the next fetcher's first call, and the
\* last one by the assembly of combined_data and the return.
Resume(s, fr) ==
  IF fr.st # "returned"
  THEN /\ fetch' = [fetch EXCEPT ![s] = fr]
       /\ UNCHANGED <<pc, data>>
  ELSE CASE s = "market" ->
              /\ fetch' = [fetch EXCEPT ![s] = fr,
                                        !["customer"] = Loop(@, 0, 0)]
              /\ UNCHANGED <<pc, data>>
         [] s = "customer" ->
              /\ fetch' = [fetch EXCEPT ![s] = fr,
                                        !["cost"] = Loop(@, 0, 0)]
              /\ UNCHANGED <<pc, data>>
         [] s = "cost" ->
              /\ fetch' = [fetch EXCEPT ![s] = fr]
              /\ data' = PyDict(combined_data(fetch["market"].ret,
                                             fetch["customer"].ret, fr.ret))
              /\ pc' = "returned"

Collect_concurrent ==
  /\ pc \in {"idle", "returned"}
  /\ cycle < MaxCycles
  /\ cycle' = cycle + 1
  /\ pc' = "collecting"
  /\ fetch' = [s \in Sources |-> Issue(FetchInit, 0, 0)]
  /\ data' = Unset
  /\ processed' = Unset
  /\ UNCHANGED <<self, prev, oracle, strategy>>

Invoke_skipfailed ==
  /\ pc \in {"idle", "returned"}
  /\ cycle < MaxCycles
  /\ cycle' = cycle + 1
  /\ pc' = "collecting"
  /\ fetch' = [s \in Sources |->
                 IF fetch["market"].ret = PyNone
                 THEN CASE s = "market" -> Return(FetchInit, PyNone)
                        [] s = "customer" -> Loop(FetchInit, 0, 0)
                        [] s = "cost" -> FetchInit
                 ELSE IF s = "market" THEN Loop(FetchInit, 0, 0) ELSE FetchInit]
  /\ data' = Unset
  /\ processed' = Unset
  /\ UNCHANGED <<self, oracle, strategy>>

\* collect_and_process is called: fresh locals, then get_market_data runs
\* up to its first requests.get.
Invoke ==
  /\ pc \in {"idle", "returned"}
  /\ cycle < MaxCycles
  /\ cycle' = cycle + 1
  /\ pc' = "collecting"
  /\ fetch' = [s \in Sources |->
                 IF s = "market" THEN Loop(FetchInit, 0, 0) ELSE FetchInit]
  /\ data' = Unset
  /\ processed' = Unset
  /\ UNCHANGED <<self, oracle, strategy>>

Collect ==
  /\ Invoke
  /\ UNCHANGED prev

\* How the fetchers of the cycle that has just returned ended.
Outcomes ==
  [s \in Sources |->
     IF pc = "idle" THEN "none"
     ELSE IF fetch[s].ret = PyNone THEN "Failure" ELSE "Success"]

\* The same call, with the outcome of the previous cycle kept in prev.
CollectTracked ==
  /\ Invoke
  /\ prev' = Outcomes

\* requests.get of fetcher s completes with response r.
Respond(s, r) ==
  /\ pc = "collecting"
  /\ fetch[s].st = "pending"
  /\ Resume(s, Handle(s, fetch[s], r))
  /\ UNCHANGED <<self, cycle, processed, prev, oracle, strategy>>

\* time.sleep(wait_time) of fetcher s returns; the loop goes on.
Wake(s) ==
  /\ pc = "collecting"
  /\ fetch[s].st = "sleeping"
  /\ Resume(s, Loop(fetch[s], fetch[s].attempt + 1, fetch[s].wait_time))
  /\ UNCHANGED <<self, cycle, processed, prev, oracle, strategy>>

\* requests.get is called without a timeout: the call of fetcher s may
\* never complete.
Hang(s) ==
  /\ pc = "collecting"
  /\ fetch[s].st = "pending"
  /\ fetch' = [fetch EXCEPT ![s].st = "hung"]
  /\ UNCHANGED <<self, cycle, pc, data, processed, prev, oracle, strategy>>

\* ------------------------------------------------------------------------
\* DynamicPricingModel
\* ------------------------------------------------------------------------
Extract_defaulting(acc, d, src, sub, out) ==
  IF acc.tag # "dict" THEN acc
  ELSE IF src \notin DOMAIN d THEN acc
  ELSE IF sub \notin DOMAIN d[src] THEN acc
  ELSE PyDict((out :> d[src][sub]) @@ acc.dict)

\* One "if src in data: processed_data[out] = data[src][sub]" statement; acc
\* is processed_data so far, or the KeyError already raised.
Extract(acc, d, src, sub, out) ==
  IF acc.tag # "dict" THEN acc
  ELSE IF src \notin DOMAIN d THEN acc
  ELSE IF sub \notin DOMAIN d[src] THEN [tag |-> "KeyError", dict |-> EmptyDict]
  ELSE PyDict((out :> d[src][sub]) @@ acc.dict)

_process_input_data_collectorkeys(d) ==
  LET p0 == PyDict(EmptyDict)
      p1 == Extract(p0, d, "market", "market_trend", "market_trend")
      p2 == Extract(p1, d, "customer", "engagement", "engagement")
      p3 == Extract(p2, d, "cost", "average_cost", "average_cost")
  IN  IF p3.tag = "KeyError" THEN ValueError ELSE p3

_process_input_data_strict(d) ==
  LET p0 == PyDict(EmptyDict)
      p1 == Extract(p0, d, "market", "trend", "market_trend")
      p2 == Extract(p1, d, "customer", "engagement", "engagement")
      p3 == Extract(p2, d, "cost", "average_cost", "average_cost")
  IN  IF p3.tag = "KeyError" \/ DOMAIN d = {} THEN ValueError ELSE p3

_process_input_data(d) ==
  LET p0 == PyDict(EmptyDict)
      p1 == Extract(p0, d, "market", "trend", "market_trend")
      p2 == Extract(p1, d, "customer", "engagement", "engagement")
      p3 == Extract(p2, d, "cost", "average_cost", "average_cost")
  IN  IF p3.tag = "KeyError" THEN ValueError ELSE p3

\* _process_input_data is called on the collected data.
ProcessInputData ==
  /\ data.tag = "dict"
  /\ processed.tag = "unset"
  /\ processed' = _process_input_data(data.dict)
  /\ UNCHANGED <<self, cycle, pc, fetch, data, prev, oracle, strategy>>

\* The pricing decisions the pretrained model may answer with; how it
\* chooses is not modelled.
Strategies == {"raise", "hold"}

PyStrategy(x) == [tag |-> "strategy", dict |-> [decision |-> x]]

StrategyFlow_repair(d, out) ==
  LET f == _process_input_data(d)
  IN  IF f.tag # "dict"
      THEN [features |-> f,
            calls |-> <<[features |-> EmptyDict, result |-> out]>>,
            result |-> PyStrategy(out)]
      ELSE [features |-> f,
            calls |-> <<[features |-> f.dict, result |-> out]>>,
            result |-> PyStrategy(out)]

\* generate_pricing_strategy on the dict d when the pretrained model
\* answers out: the value of _process_input_data, the calls made to the
\* pretrained model, and what is returned or raised.
StrategyFlow(d, out) ==
  LET f == _process_input_data(d)
  IN  IF f.tag # "dict"
      THEN [features |-> f, calls |-> <<>>, result |-> f]
      ELSE [features |-> f,
            calls |-> <<[features |-> f.dict, result |-> out]>>,
            result |-> PyStrategy(out)]

\* generate_pricing_strategy is called on data.
GeneratePricingStrategy ==
  /\ data.tag = "dict"
  /\ strategy.tag = "unset"
  /\ \E out \in Strategies :
       LET g == StrategyFlow(data.dict, out)
       IN  /\ processed' = g.features
           /\ oracle' = oracle \o g.calls
           /\ strategy' = g.result
  /\ UNCHANGED <<self, cycle, pc, fetch, data, prev>>

\* ------------------------------------------------------------------------
\* Specifications
\* ------------------------------------------------------------------------
\* prev: how each fetcher ended in the previous cycle (kept by CycleSpec).
NoPrev == [s \in Sources |-> "none"]

Init ==
  /\ self = Config
  /\ cycle = 0
  /\ pc = "idle"
  /\ fetch = [s \in Sources |-> FetchInit]
  /\ data = Unset
  /\ processed = Unset
  /\ prev = NoPrev
  /\ oracle = <<>>
  /\ strategy = Unset

Next ==
  \/ Collect
  \/ \E s \in Sources : \E r \in Responses(s) : Respond(s, r)
  \/ \E s \in Sources : Wake(s)
  \/ \E s \in Sources : Hang(s)
  \/ ProcessInputData

Spec == Init /\ [][Next]_vars

\* A call that completes is handled and a sleep ends; nothing makes a call
\* complete.
FairSpec ==
  /\ Spec
  /\ WF_vars(\E s \in Sources : \E r \in Responses(s) : Respond(s, r))
  /\ WF_vars(\E s \in Sources : Wake(s))

\* The sub-fields a source's payload may carry in the dict handed to
\* _process_input_data.
FullPayloads(s) ==
  CASE s = "market" ->
         {[trend |-> t, market_trend |-> t, volume |-> 1000,
           timestamp |-> Timestamp] : t \in Trends}
    [] s = "customer" ->
         {[behavior_trend |-> "up", engagement |-> 7, timestamp |-> Timestamp]}
    [] s = "cost" ->
         {[cost_trend |-> "stable", average_cost |-> c,
           timestamp |-> Timestamp] : c \in {Mean(q) : q \in CostSeries}}

PayloadFields(s) ==
  CASE s = "market"   -> {"trend", "market_trend", "volume", "timestamp"}
    [] s = "customer" -> {"behavior_trend", "engagement", "timestamp"}
    [] s = "cost"     -> {"cost_trend", "average_cost", "timestamp"}

Payloads(s) ==
  {Restrict(b, D) : b \in FullPayloads(s), D \in SUBSET PayloadFields(s)}

\* Every dict with any of the three source keys, each with any payload.
Snapshots ==
  UNION {[D -> UNION {Payloads(s) : s \in D}] : D \in SUBSET Sources}

WellKeyed(d) == \A s \in DOMAIN d : d[s] \in Payloads(s)

\* _process_input_data on its own, on an arbitrary input dict.
NormInit ==
  /\ self = Config
  /\ cycle = 0
  /\ pc = "idle"
  /\ fetch = [s \in Sources |-> FetchInit]
  /\ data \in {PyDict(d) : d \in {x \in Snapshots : WellKeyed(x)}}
  /\ processed = Unset
  /\ prev = NoPrev
  /\ oracle = <<>>
  /\ strategy = Unset

NormNext == ProcessInputData

NormSpec == NormInit /\ [][NormNext]_vars

\* One response of each kind per source: a transport error, a 500 and a
\* well-formed 200.
CoreResponses(s) ==
  {r \in Responses(s) :
     \/ r.raised
     \/ r.status_code # 200
     \/ r.json /\ r.body = (CHOOSE b \in FullBodies(s) : TRUE)}

\* Successive calls of collect_and_process on one collector, each state
\* carrying how the previous cycle ended.
CycleNext ==
  \/ CollectTracked
  \/ \E s \in Sources : \E r \in CoreResponses(s) : Respond(s, r)
  \/ \E s \in Sources : Wake(s)

CycleSpec == Init /\ [][CycleNext]_vars

\* generate_pricing_strategy on its own, on an arbitrary input dict.
GenInit == NormInit

GenNext == GeneratePricingStrategy

GenSpec == GenInit /\ [][GenNext]_vars

TypeOK ==
  /\ self = Config
  /\ cycle \in 0..MaxCycles
  /\ pc \in {"idle", "collecting", "returned"}
  /\ \A s \in Sources :
       /\ fetch[s].st \in {"notstarted", "pending", "sleeping", "hung", "returned"}
       /\ fetch[s].attempt \in 0..(retries - 1)
       /\ fetch[s].calls \in 0..retries
  /\ data.tag \in {"unset", "dict"}
  /\ processed.tag \in {"unset", "dict", "ValueError"}
  /\ prev \in [Sources -> {"none", "Success", "Failure"}]
  /\ Len(oracle) <= 1
  /\ strategy.tag \in {"unset", "strategy", "ValueError"}

\* ------------------------------------------------------------------------
\* Properties
\* ------------------------------------------------------------------------
Last(q) == q[Len(q)]

\* The Features field that stands for a source.
FeatureKey(s) ==
  CASE s = "market"   -> "market_trend"
    [] s = "customer" -> "engagement"
    [] s = "cost"     -> "average_cost"

\* Fetcher s ended in Success: its last response was a well-formed 200.
Succeeded(s) ==
  /\ fetch[s].st = "returned"
  /\ Len(fetch[s].hist) > 0
  /\ Last(fetch[s].hist) = "WellFormed"

\* Fetcher s ended in Failure: all its attempts were used up by failures.
Exhausted(s) ==
  /\ fetch[s].st = "returned"
  /\ Len(fetch[s].hist) = retries
  /\ \A i \in 1..retries : fetch[s].hist[i] # "WellFormed"

\* C1: whatever collect_and_process returned, _process_input_data applied to
\* it does not fail and yields exactly one field per source present.
C1_EndToEnd ==
  processed.tag # "unset" =>
    /\ processed.tag = "dict"
    /\ DOMAIN processed.dict = {FeatureKey(s) : s \in DOMAIN data.dict}

\* C2: collect_and_process returns a dict (it neither raises nor returns
\* None) in which a source's key is present iff its fetcher ended in
\* Success, and then holds what the fetcher returned.
C2_KeyIffSuccess ==
  pc = "returned" =>
    /\ data.tag = "dict"
    /\ \A s \in Sources :
         /\ (s \in DOMAIN data.dict) <=> Succeeded(s)
         /\ ~Succeeded(s) => Exhausted(s)
         /\ s \in DOMAIN data.dict => data.dict[s] = fetch[s].ret.dict

C2_Witness ==
  /\ pc = "returned"
  /\ Exhausted("market")
  /\ DOMAIN data.dict = {"customer", "cost"}

\* C3: the time slept between call j and call j+1 (0-based attempts j-1 and
\* j) is backoff_factor * 2^(j-1), whatever made attempt j-1 fail.
C3_BackoffAfterEveryFailure ==
  \A s \in Sources :
    \A j \in 1..Len(fetch[s].delays) :
      fetch[s].delays[j] = backoff_factor * (2 ^ (j - 1))

\* C4: a fetcher that has seen only non-200 responses has not returned
\* before its retries-th call, and after the retries-th such response it has
\* returned None after exactly retries calls, its last log being the status.
OnlyBadStatus(s) ==
  /\ Len(fetch[s].hist) > 0
  /\ \A i \in 1..Len(fetch[s].hist) : fetch[s].hist[i] = "BadStatus"

C4_BadStatusExhausts ==
  \A s \in Sources :
    OnlyBadStatus(s) =>
      /\ fetch[s].lastlog = "API returned"
      /\ fetch[s].calls <= retries
      /\ Len(fetch[s].hist) < retries =>
           /\ fetch[s].st \in {"pending", "hung"}
           /\ fetch[s].calls = Len(fetch[s].hist) + 1
      /\ Len(fetch[s].hist) >= retries =>
           /\ fetch[s].st = "returned"
           /\ fetch[s].ret = PyNone
           /\ fetch[s].calls = retries
           /\ pc = "returned" => s \notin DOMAIN data.dict

C4_Witness ==
  \A s \in Sources :
    /\ OnlyBadStatus(s)
    /\ fetch[s].st = "returned"
    /\ fetch[s].calls = retries

\* C5: a well-formed 200 response is always the last response of its
\* fetcher: the fetcher returned the record at once, having made exactly as
\* many calls as it got responses (k failures, then k+1 calls).
C5_SuccessStops ==
  \A s \in Sources :
    \A i \in 1..Len(fetch[s].hist) :
      fetch[s].hist[i] = "WellFormed" =>
        /\ i = Len(fetch[s].hist)
        /\ fetch[s].st = "returned"
        /\ fetch[s].ret.tag = "dict"
        /\ fetch[s].calls = i
        /\ i <= retries

C5_Witness ==
  /\ fetch["market"].hist = <<"WellFormed">>
  /\ fetch["market"].calls = 1
  /\ fetch["customer"].hist = <<"BadStatus", "Transport", "WellFormed">>
  /\ fetch["customer"].calls = 3
  /\ pc = "returned"

\* The sub-field of a source's payload that _process_input_data reads.
NormReads(s) ==
  CASE s = "market"   -> "trend"
    [] s = "customer" -> "engagement"
    [] s = "cost"     -> "average_cost"

LacksSubField(d) ==
  \E s \in DOMAIN d : NormReads(s) \notin DOMAIN d[s]

\* C6: _process_input_data raises ValueError iff a present source's payload
\* lacks the sub-field read; otherwise its result has one field per source
\* present, holding that sub-field, and no field for an absent source.
C6_NormalizerFailsIffMissing ==
  processed.tag # "unset" =>
    /\ processed = ValueError <=> LacksSubField(data.dict)
    /\ ~LacksSubField(data.dict) =>
         /\ processed.tag = "dict"
         /\ DOMAIN processed.dict = {FeatureKey(s) : s \in DOMAIN data.dict}
         /\ \A s \in DOMAIN data.dict :
              processed.dict[FeatureKey(s)] = data.dict[s][NormReads(s)]

C6_Witness ==
  /\ processed = ValueError
  /\ DOMAIN data.dict = {"market", "customer"}
  /\ "trend" \in DOMAIN data.dict["market"]
  /\ "engagement" \notin DOMAIN data.dict["customer"]

\* C7: a malformed 200 response never ends its fetcher in Success; it is
\* logged as a failed request and followed by the backoff and the next call
\* while attempts remain; retries malformed responses end in None and the
\* source's key is absent from the collected data.
C7_MalformedNeverSucceeds ==
  \A s \in Sources :
    LET f == fetch[s]
    IN  /\ \A i \in 1..Len(f.hist) :
             f.hist[i] = "Malformed" =>
               /\ i = Len(f.hist) =>
                    /\ ~(f.st = "returned" /\ f.ret.tag = "dict")
                    /\ f.lastlog = "Request failed"
               /\ i < retries =>
                    \/ i = Len(f.hist) /\ f.st = "sleeping" /\ f.calls = i
                    \/ f.calls > i
        /\ (Len(f.hist) = retries /\ \A i \in 1..retries : f.hist[i] = "Malformed") =>
             /\ f.st = "returned"
             /\ f.ret = PyNone
             /\ f.calls = retries
             /\ pc = "returned" => s \notin DOMAIN data.dict

C7_Witness ==
  /\ pc = "returned"
  /\ fetch["cost"].hist = <<"Malformed", "Malformed", "Malformed">>
  /\ "cost" \notin DOMAIN data.dict
  /\ "market" \in DOMAIN data.dict

\* C8: when all three fetchers used up their attempts, collect_and_process
\* returns the empty dict, and _process_input_data of it is the empty dict.
C8_TotalFailure ==
  (pc = "returned" /\ \A s \in Sources : Exhausted(s)) =>
    /\ data = PyDict(EmptyDict)
    /\ _process_input_data(data.dict) = PyDict(EmptyDict)
    /\ processed.tag # "unset" => processed = PyDict(EmptyDict)

C8_Witness ==
  /\ pc = "returned"
  /\ \A s \in Sources : Exhausted(s)
  /\ processed.tag = "dict"

\* The order in which collect_and_process calls the fetchers.
Rank(s) ==
  CASE s = "market" -> 1 [] s = "customer" -> 2 [] s = "cost" -> 3

Active(s) == fetch[s].st \in {"pending", "sleeping", "hung"}

\* C9 as claimed: while a fetcher is suspended in its backoff, no other
\* fetcher is held back (each has issued its calls or is done).
C9_NonBlocking ==
  \A s \in Sources :
    fetch[s].st = "sleeping" =>
      \A t \in Sources \ {s} : fetch[t].st # "notstarted"

\* C9 as amended: the fetchers run one after another; while one is in a call
\* or in its backoff, those before it have returned and those after it have
\* not issued any call; a fetcher starts as soon as the one before it has
\* returned, whatever it returned.
C9_Sequential ==
  \A s, t \in Sources :
    /\ (Active(s) /\ Rank(t) < Rank(s)) => fetch[t].st = "returned"
    /\ (Active(s) /\ Rank(t) > Rank(s)) =>
         fetch[t].st = "notstarted" /\ fetch[t].calls = 0
    /\ (fetch[s].st = "returned" /\ Rank(t) = Rank(s) + 1) =>
         fetch[t].st # "notstarted" /\ fetch[t].calls >= 1

C9_Witness ==
  /\ fetch["customer"].st = "sleeping"
  /\ Exhausted("market")
  /\ fetch["cost"].st = "notstarted"

AnyHung == \E s \in Sources : fetch[s].st = "hung"

\* C10 as claimed: every call of collect_and_process eventually returns.
C10_AlwaysReturns == (pc = "collecting") ~> (pc = "returned")

\* C10 as amended: every call of collect_and_process eventually returns
\* unless one of its external calls never completes; from then on it stays
\* blocked in that call and returns nothing.
C10_ReturnsUnlessHung ==
  /\ (pc = "collecting") ~> (pc = "returned" \/ AnyHung)
  /\ [][AnyHung => (AnyHung' /\ pc' = "collecting" /\ data' = Unset)]_vars

C10_Witness ==
  /\ pc = "collecting"
  /\ Succeeded("market")
  /\ fetch["customer"].st = "hung"
  /\ fetch["cost"].st = "notstarted"

\* The projection of a dict of well-formed payloads: one field per source
\* present, holding the sub-field read.
Projection(d) ==
  [k \in {FeatureKey(s) : s \in DOMAIN d} |->
     LET s == CHOOSE t \in DOMAIN d : FeatureKey(t) = k
     IN  d[s][NormReads(s)]]

\* C11: generate_pricing_strategy runs _process_input_data first; when that
\* raises, the ValueError is what the caller gets and the pretrained model
\* was not called; otherwise the pretrained model was called exactly once,
\* with the processed data as they are, and its answer is what is returned.
C11_NormalizeThenOracle ==
  strategy.tag # "unset" =>
    /\ LacksSubField(data.dict) =>
         /\ strategy = ValueError
         /\ oracle = <<>>
    /\ ~LacksSubField(data.dict) =>
         /\ Len(oracle) = 1
         /\ processed.tag = "dict"
         /\ oracle[1].features = processed.dict
         /\ oracle[1].features = Projection(data.dict)
         /\ strategy = PyStrategy(oracle[1].result)

C11_Witness ==
  /\ strategy.tag = "strategy"
  /\ Len(oracle) = 1
  /\ DOMAIN oracle[1].features = {"market_trend", "average_cost"}
  /\ "volume" \in DOMAIN data.dict["market"]

\* The dict rebuilt from processed data f: each field goes back under its
\* source key, as the sub-field that _process_input_data reads there.
ToSnapshot(f) ==
  [s \in {t \in Sources : FeatureKey(t) \in DOMAIN f} |->
     (NormReads(s) :> f[FeatureKey(s)])]

\* C12: when _process_input_data succeeds, processing the dict rebuilt from
\* its result succeeds too and gives the same result.
C12_Idempotent ==
  processed.tag = "dict" =>
    _process_input_data(ToSnapshot(processed.dict)) = processed

C12_Witness ==
  /\ processed.tag = "dict"
  /\ DOMAIN processed.dict = {"market_trend", "engagement", "average_cost"}
  /\ DOMAIN data.dict["market"] = {"trend", "market_trend", "volume", "timestamp"}
  /\ ToSnapshot(processed.dict) # data.dict

\* C13: combined_data exists only once all three fetchers have returned;
\* the step that builds it is the step in which the last of them returns,
\* and no fetcher is in a call or in a backoff wait then or afterwards.
C13_Barrier ==
  /\ [](data.tag # "unset" =>
          /\ pc = "returned"
          /\ \A s \in Sources : fetch[s].st = "returned" /\ fetch[s].calls >= 1)
  /\ [][data' # data /\ data'.tag # "unset" =>
          /\ data = Unset
          /\ \E s \in Sources : Active(s)
          /\ \A s \in Sources : fetch'[s].st = "returned"]_vars

C13_Witness ==
  /\ data.tag = "dict"
  /\ DOMAIN data.dict = {"market"}
  /\ fetch["customer"].delays = <<1, 2>>
  /\ fetch["cost"].delays = <<0, 2>>

\* The number of backoff waits fetcher s has entered.
NumSleeps(s) ==
  Cardinality({j \in 1..Len(fetch[s].delays) : fetch[s].delays[j] > 0})
    + (IF fetch[s].st = "sleeping" THEN 1 ELSE 0)

\* C14: a fetcher sleeps only after a call of its own and only while
\* attempts remain, at most retries - 1 times; a fetcher starts with a call,
\* not with a wait, and the step that ends a wait issues the next call.
C14_BackoffOnlyBetween ==
  /\ [](\A s \in Sources :
          /\ fetch[s].st = "sleeping" =>
               /\ fetch[s].calls >= 1
               /\ fetch[s].calls < retries
               /\ fetch[s].calls = Len(fetch[s].hist)
               /\ fetch[s].wait_time > 0
          /\ fetch[s].st # "sleeping" => fetch[s].wait_time = 0
          /\ NumSleeps(s) <= retries - 1
          /\ fetch[s].calls >= 1 => Len(fetch[s].delays) = fetch[s].calls - 1)
  /\ [][\A s \in Sources :
          /\ (fetch[s].st = "notstarted" /\ fetch'[s].st # "notstarted") =>
               /\ fetch'[s].st = "pending"
               /\ fetch'[s].calls = 1
               /\ fetch'[s].delays = <<>>
          /\ (fetch[s].st # "sleeping" /\ fetch'[s].st = "sleeping") =>
               /\ fetch[s].st = "pending"
               /\ fetch'[s].calls = fetch[s].calls
          /\ (fetch[s].st = "sleeping" /\ fetch'[s] # fetch[s]) =>
               /\ fetch'[s].st = "pending"
               /\ fetch'[s].calls = fetch[s].calls + 1
               /\ Last(fetch'[s].delays) = fetch[s].wait_time]_vars

C14_Witness ==
  /\ fetch["market"].st = "returned"
  /\ fetch["market"].calls = retries
  /\ NumSleeps("market") = retries - 1
  /\ fetch["customer"].st = "sleeping"
  /\ fetch["customer"].wait_time = 2

TotalCalls ==
  fetch["market"].calls + fetch["customer"].calls + fetch["cost"].calls

\* C15: within one call of collect_and_process every fetcher is run once:
\* a fetcher that has returned, with a dict or with None, is left as it is
\* until the next call of collect_and_process, no fetcher goes back to its
\* start, and so each source gets at least 1 and at most retries calls and
\* the cycle at most 3 * retries.
C15_NoRetryAboveFetcher ==
  /\ [](/\ \A s \in Sources :
             /\ fetch[s].calls <= retries
             /\ fetch[s].st = "returned" => fetch[s].calls >= 1
             /\ pc = "returned" => fetch[s].st = "returned"
        /\ TotalCalls <= 3 * retries)
  /\ [][cycle' = cycle =>
          \A s \in Sources :
            /\ fetch[s].st = "returned" => fetch'[s] = fetch[s]
            /\ fetch[s].st # "notstarted" =>
                 /\ fetch'[s].st # "notstarted"
                 /\ fetch'[s].calls >= fetch[s].calls
                 /\ fetch'[s].attempt >= fetch[s].attempt]_vars

C15_Witness ==
  /\ pc = "returned"
  /\ Exhausted("market")
  /\ fetch["customer"].calls = 1
  /\ Exhausted("cost")
  /\ TotalCalls = 2 * retries + 1

\* The waits that the responses h of one fetcher call give rise to: after
\* response j, none on a non-200 status, backoff_factor * 2^(j-1) otherwise.
DelaysFor(h) ==
  [j \in 1..(Len(h) - 1) |->
     IF h[j] = "BadStatus" THEN 0 ELSE backoff_factor * (2 ^ (j - 1))]

\* The first state of a cycle: get_market_data in its first call.
CycleStart ==
  [s \in Sources |->
     IF s = "market" THEN Issue(FetchInit, 0, 0) ELSE FetchInit]

\* C16: a call of collect_and_process leaves the configuration as __init__
\* set it and starts from the same state whatever the previous cycle was;
\* in every cycle, however the fetchers of the previous one ended, a
\* fetcher's number of calls, its waits and the presence of its key are those
\* that the responses of this cycle alone determine.
C16_Stateless ==
  /\ [](/\ self = Config
        /\ \A s \in Sources :
             fetch[s].st = "returned" =>
               /\ fetch[s].calls = Len(fetch[s].hist)
               /\ fetch[s].calls \in 1..retries
               /\ Last(fetch[s].hist) = "WellFormed" \/ Len(fetch[s].hist) = retries
               /\ \A j \in 1..(Len(fetch[s].hist) - 1) :
                    fetch[s].hist[j] # "WellFormed"
               /\ fetch[s].delays = DelaysFor(fetch[s].hist)
        /\ pc = "returned" =>
             DOMAIN data.dict =
               {s \in Sources : Last(fetch[s].hist) = "WellFormed"})
  /\ [][/\ self' = self
        /\ cycle' # cycle =>
             /\ fetch' = CycleStart
             /\ data' = Unset]_vars

C16_Witness ==
  /\ cycle = 2
  /\ pc = "returned"
  /\ prev = [s \in Sources |-> IF s = "customer" THEN "Success" ELSE "Failure"]
  /\ fetch["market"].hist = <<"WellFormed">>
  /\ fetch["market"].calls = 1
  /\ Exhausted("customer")
  /\ fetch["cost"].hist = <<"Transport", "WellFormed">>
  /\ fetch["cost"].delays = <<1>>
  /\ DOMAIN data.dict = {"market", "cost"}
====
